---- MODULE Spec2Model ----
(***************************************************************************)
(* luckydep: Container (provide / invoke with singleton memoization) and   *)
(* Value (a lazily evaluated, memoized cell), modelled from                *)
(* src/src/luckydep/__init__.py.                                           *)
(*                                                                         *)
(* The factories are the caller's code.  They are drawn from a small table *)
(* of behaviours (FactoryIds): each factory resolves a list of keys        *)
(* through the container it receives and then returns a new object or      *)
(* raises.  A running factory is a frame on a call stack, so nested and    *)
(* re-entrant calls of invoke are steps of the model.                      *)
(*                                                                         *)
(* Further specifications over the same actions: SpecWrap (factories made  *)
(* by wrap), SpecGraph and SpecDag (a diamond of dependencies), SpecThreads*)
(* (two threads inside invoke and value()), SpecRefine (a Value beside a   *)
(* one-key Container), SpecTwo (two Containers, two Values) and SpecNone   *)
(* (factories returning None).                                             *)
(***************************************************************************)
EXTENDS Integers, Sequences, FiniteSets, TLC

\* ------------------------------------------------------------------ bounds
\* Number of top-level calls (provide / invoke / Value / value) of one run.
MaxOps == 4
\* Deepest nesting of running factories; one more call raises RecursionError.
MaxDepth == 3
\* Number of calls of wrap and of wrapped functions by the application.
MaxWrapOps == 2
\* Number of calls on two Containers and two Values together.
MaxTwoOps == 7

\* ------------------------------------------------------------------- keys
Classes == {"T", "U"}
DefaultName == "default"
Names == {DefaultName, "a"}
\* The name argument left out of a call.
Omitted == "<omitted>"
NameArgs == Names \cup {Omitted}
Keys == Classes \X Names

\* -------------------------------------------------------------- factories
\* fObj            returns a new object
\* fFlaky          returns a new object or raises
\* fDep            resolves ("U", "default"), then returns an object built
\*                 from it or raises
\* fOnce           resolves the key it is running for unless it is already
\*                 running (a guard flag in the closure), then returns a
\*                 new object or raises
\* fNone           returns None
\* fTop            resolves ("T", "default") and ("T", "a"), then returns an
\*                 object built from both or raises
FactoryIds == {"fObj", "fFlaky", "fDep", "fOnce"}

\* Factories without parameter, the argument of wrap and of Value:
\* pObj            returns a new object
\* pFlaky          returns a new object or raises
\* pTape           returns a new object or raises as a tape of outcomes,
\*                 fixed for the run, says for each of its calls
PlainIds == {"pObj", "pFlaky"}
TapedIds == {"pTape"}

\* wrap(factory): the function wrapped that closes over factory.
Wrapped == [pObj |-> "wObj", pFlaky |-> "wFlaky", pTape |-> "wTape"]
WrappedIds == {Wrapped[plain] : plain \in PlainIds \cup TapedIds}
PlainOf(wrapped) ==
    CHOOSE plain \in PlainIds \cup TapedIds : Wrapped[plain] = wrapped

Running(stk, factory) == \E i \in 1..Len(stk) : stk[i].fac = factory

\* The calls the factory makes, in order: the keys it resolves and, for
\* wrapped, the one call factory(); below is the stack under it.
Deps(factory, key, below) ==
    CASE factory = "fDep" -> << <<"U", DefaultName>> >>
      [] factory = "fTop" -> << <<"T", DefaultName>>, <<"T", "a">> >>
      [] factory \in WrappedIds -> << <<"factory()", PlainOf(factory)>> >>
      [] factory = "fOnce" -> IF Running(below, factory) THEN << >> ELSE <<key>>
      [] OTHER -> << >>

\* How the body of the factory can end once its calls have returned.
Outcomes(factory) ==
    IF factory \in {"fObj", "fNone"} \cup WrappedIds THEN {"return"}
    ELSE {"return", "raise"}

\* The outcomes a tape can prescribe.
TapeOutcomes == {"return", "raise"}

VARIABLES
    factories,   \* Container._factories: key -> factory
    instances,   \* Container._instances: key -> instance
    stack,       \* the factories running inside invoke, outermost first
    nextId,      \* identity of the next object a factory creates
    ncalls,      \* per key, how many times a factory was invoked for it
    result,      \* the last call of Container and how it ended
    nops,        \* number of top-level calls made
    first,       \* per key, what its first successful top-level invoke returned
    errors,      \* <<key, exception>>: the invoke of key raised exception
    replaced,    \* <<key, factory>>: provided, then overwritten by another
                 \* factory before any instance of key was cached
    unnamed,     \* <<op, cls>>: op was called for cls without a name
    cell_factory, \* Value._factory of each constructed cell
    cell_value,   \* Value._value
    cell_invoked, \* Value._invoked
    vstack,      \* the factories running inside value(), outermost first
    vnextId,     \* identity of the next object a cell factory creates
    vcalls,      \* per cell, how many times its factory was invoked
    vresult,     \* the last call on a Value and how it ended
    vops,        \* number of top-level calls made on Values
    vfirst,      \* per cell, what its first successful top-level value() returned
    wrappers,    \* the functions wrap has returned
    pcalls,      \* per plain factory, how many times it was called
    pnextId,     \* identity of the next object a plain factory creates
    wresult,     \* the last call of wrap or of a wrapped function
    wops,        \* number of such calls made by the application
    ndirect,     \* number of calls of wrapped functions by the application
    tpc,         \* per thread, where it is inside invoke or value()
    ttarget,     \* per thread, what it calls: the container or the cell
    tlocal,      \* per thread, the object its factory call returned
    tmissed,     \* per thread and target, a call of it found nothing cached
    tret,        \* per thread and target, what its last call returned
    tops,        \* number of calls the threads have begun
    tape,        \* how the successive calls of the factory pTape end
    other_factories, \* _factories of a second Container
    other_instances, \* _instances of the second Container
    other_nextId,    \* identity of the next object made for the second one
    other_ncalls,    \* per key, factory invocations by the second Container
    other_result,    \* the last call of the second Container
    other_ops        \* number of calls made on the second Container

cvars == <<factories, instances, stack, nextId, ncalls, result, nops, first,
           errors, replaced, unnamed>>
vvars == <<cell_factory, cell_value, cell_invoked, vstack, vnextId, vcalls,
           vresult, vops, vfirst>>
wvars == <<wrappers, pcalls, pnextId, wresult, wops, ndirect>>
tvars == <<tpc, ttarget, tlocal, tmissed, tret, tops>>
rvars == <<tape>>
ovars == <<other_factories, other_instances, other_nextId, other_ncalls,
           other_result, other_ops>>
xvars == <<wvars, tvars, rvars, ovars>>
\* xvars without wvars, and without tvars
nwvars == <<tvars, rvars, ovars>>
ntvars == <<wvars, rvars, ovars>>
vars == <<cvars, vvars, xvars>>

NoResult == [op |-> "none"]

\* None
None == [id |-> 0]

\* d[key] = value on a dict
SetItem(d, key, value) ==
    [k \in DOMAIN d \cup {key} |-> IF k = key THEN value ELSE d[k]]

\* ------------------------------------------------------------- Container
\* Container.__init__
ContainerInit ==
    /\ factories = << >>
    /\ instances = << >>
    /\ stack = << >>
    /\ nextId = 1
    /\ ncalls = [k \in Keys |-> 0]
    /\ result = NoResult
    /\ nops = 0
    /\ first = << >>
    /\ errors = {}
    /\ replaced = {}
    /\ unnamed = {}

\* Mutant of ProvideName: provide has another default name than invoke.
ProvideNameOther(name) == IF name = Omitted THEN "a" ELSE name

\* provide(..., *, name: str = "default")
ProvideName(name) == IF name = Omitted THEN DefaultName ELSE name

\* invoke(..., *, name: str = "default")
InvokeName(name) == IF name = Omitted THEN DefaultName ELSE name

Unnamed(op, cls, name) ==
    IF name = Omitted THEN unnamed \cup {<<op, cls>>} ELSE unnamed

\* The factories overwritten before they were used, after factory is
\* provided for key.
Replaced(key, factory) ==
    (IF /\ key \in DOMAIN factories
        /\ key \notin DOMAIN instances
        /\ factories[key] # factory
     THEN replaced \cup {<<key, factories[key]>>}
     ELSE replaced) \ {<<key, factory>>}

\* Mutant of Provided: a key that has a factory keeps it (setdefault).
ProvidedIfAbsent(key, factory) ==
    IF key \in DOMAIN factories THEN factories
    ELSE SetItem(factories, key, factory)

\* self._factories[cls, name] = factory
Provided(key, factory) == SetItem(factories, key, factory)

\* Mutant of Untouched: provide calls the factory at once and caches what
\* it returns.
InvokedEagerly(key, factory) ==
    IF key \in DOMAIN instances THEN instances
    ELSE SetItem(instances, key,
                 [id |-> nextId, by |-> factory, parts |-> << >>])

\* Mutant of Untouched: provide drops the cached instance of the key.
Evicted(key, factory) == [k \in DOMAIN instances \ {key} |-> instances[k]]

\* Mutant of Untouched: provide empties the cache.
Cleared(key, factory) == << >>

\* self._instances after provide: provide does not touch it.
Untouched(key, factory) == instances

\* Container.provide
Provide(cls, factory, name) ==
    LET key == <<cls, ProvideName(name)>> IN
    /\ stack = << >>
    /\ nops < MaxOps
    /\ factories' = Provided(key, factory)
    /\ instances' = Untouched(key, factory)
    /\ result' = [op |-> "provide", cls |-> cls, name |-> name, key |-> key,
                  fac |-> factory]
    /\ nops' = nops + 1
    /\ replaced' = Replaced(key, factory)
    /\ unnamed' = Unnamed("provide", cls, name)
    /\ UNCHANGED <<stack, nextId, ncalls, first, errors>>
    /\ UNCHANGED <<vvars, xvars>>

\* Mutant of Identifier: the name is left out of the key.
IdentifierByClass(cls, name) == <<cls, DefaultName>>

\* identifier = (cls, name)
Identifier(cls, name) == <<cls, name>>

\* Mutant of Cached: a cached None counts as not cached
\* (self._instances.get(identifier) is not None).
CachedNotNone(identifier) ==
    identifier \in DOMAIN instances /\ instances[identifier] # None

\* Mutant of Cached: the cache is never consulted.
CachedNever(identifier) == FALSE

\* if identifier in self._instances
Cached(identifier) == identifier \in DOMAIN instances

\* Mutant of Lookup: a key whose factory is running is refused (cycle
\* detection).
LookupCycleChecked(identifier) ==
    IF \E i \in 1..Len(stack) : stack[i].key = identifier THEN "KeyError"
    ELSE IF identifier \in DOMAIN factories THEN factories[identifier]
    ELSE "KeyError"

\* Mutant of Lookup: a missing name falls back to the default name.
LookupFallback(identifier) ==
    IF identifier \in DOMAIN factories THEN factories[identifier]
    ELSE IF <<identifier[1], DefaultName>> \in DOMAIN factories
    THEN factories[<<identifier[1], DefaultName>>]
    ELSE "KeyError"

\* self._factories[cls, name], a KeyError when the key is missing
Lookup(identifier) ==
    IF identifier \in DOMAIN factories THEN factories[identifier]
    ELSE "KeyError"

\* The frame of a factory that starts running for identifier.
Frame(identifier) ==
    [key |-> identifier, fac |-> Lookup(identifier), pos |-> 1,
     parts |-> << >>]

\* Mutant of WrappedReturn: wrapped calls factory and drops its result.
WrappedReturnsNone(frame) == None

\* return factory(): wrapped returns what its call of factory returned.
WrappedReturn(frame) == frame.parts[1]

\* The object a finished frame returns.
Built(frame) ==
    IF frame.fac \in WrappedIds THEN WrappedReturn(frame)
    ELSE IF frame.fac = "fNone" THEN None
    ELSE [id |-> nextId, by |-> frame.fac, parts |-> frame.parts]

\* How a call ended: status is "ok" or the exception, at is the key whose
\* invoke raised or returned, hit says whether the outermost call found its
\* key cached.
Ended(call, status, at, value, hit) ==
    [op |-> "invoke", cls |-> call.cls, name |-> call.name, key |-> call.key,
     status |-> status, at |-> at, value |-> value, hit |-> hit]

\* The first object a top-level invoke of identifier returned.
FirstOf(identifier, value) ==
    IF identifier \in DOMAIN first THEN first
    ELSE SetItem(first, identifier, value)

\* invoke called by the application: the cache hit, the missing factory
\* (KeyError), or the factory starts running.
Invoke(cls, name) ==
    LET identifier == Identifier(cls, InvokeName(name))
        call == [cls |-> cls, name |-> name, key |-> identifier]
    IN
    /\ stack = << >>
    /\ nops < MaxOps
    /\ nops' = nops + 1
    /\ unnamed' = Unnamed("invoke", cls, name)
    /\ IF Cached(identifier)
       THEN /\ result' = Ended(call, "ok", identifier, instances[identifier],
                               TRUE)
            /\ first' = FirstOf(identifier, instances[identifier])
            /\ UNCHANGED <<factories, instances, stack, nextId, ncalls,
                           errors>>
       ELSE IF Lookup(identifier) = "KeyError"
       THEN /\ result' = Ended(call, "KeyError", identifier, None, FALSE)
            /\ errors' = errors \cup {<<identifier, "KeyError">>}
            /\ UNCHANGED <<factories, instances, stack, nextId, ncalls,
                           first>>
       ELSE /\ stack' = <<Frame(identifier)>>
            /\ ncalls' = [ncalls EXCEPT ![identifier] = @ + 1]
            /\ result' = [op |-> "invoke", cls |-> cls, name |-> name,
                          key |-> identifier, status |-> "running"]
            /\ UNCHANGED <<factories, instances, nextId, first, errors>>
    /\ UNCHANGED replaced
    /\ UNCHANGED <<vvars, xvars>>

Top == stack[Len(stack)]
Below == SubSeq(stack, 1, Len(stack) - 1)
TopDeps == Deps(Top.fac, Top.key, Below)

\* An exception leaves every running factory and the outermost invoke.
Unwind(status, at) ==
    /\ stack' = << >>
    /\ result' = Ended(result, status, at, None, FALSE)
    /\ errors' = errors \cup {<<at, status>>}
    /\ UNCHANGED <<factories, instances, nextId, ncalls, nops, first,
                   replaced, unnamed>>

\* invoke called by the running factory, c.invoke(dep).
NestedInvoke ==
    /\ stack # << >>
    /\ Top.pos <= Len(TopDeps)
    /\ LET identifier == TopDeps[Top.pos] IN
       IF Cached(identifier)
       THEN /\ stack' = [stack EXCEPT ![Len(stack)] =
                           [@ EXCEPT !.pos = @ + 1,
                                     !.parts = Append(@, instances[identifier])]]
            /\ UNCHANGED <<factories, instances, nextId, ncalls, result, nops,
                           first, errors, replaced, unnamed>>
       ELSE IF Lookup(identifier) = "KeyError"
       THEN Unwind("KeyError", identifier)
       ELSE IF Len(stack) >= MaxDepth
       THEN Unwind("RecursionError", identifier)
       ELSE /\ stack' = Append(stack, Frame(identifier))
            /\ ncalls' = [ncalls EXCEPT ![identifier] = @ + 1]
            /\ UNCHANGED <<factories, instances, nextId, result, nops, first,
                           errors, replaced, unnamed>>
    /\ UNCHANGED <<vvars, xvars>>

\* The instances after the factory of frame returned value:
\* self._instances[identifier] = self._factories[cls, name](self)
Stored(frame, value) == SetItem(instances, frame.key, value)

\* The running factory returns; invoke stores the object and returns
\* self._instances[identifier] to its caller.
FactoryReturn ==
    /\ stack # << >>
    /\ Top.pos > Len(TopDeps)
    /\ "return" \in Outcomes(Top.fac)
    /\ instances' = Stored(Top, Built(Top))
    /\ nextId' = nextId + 1
    /\ IF Len(stack) = 1
       THEN /\ stack' = << >>
            /\ result' = Ended(result, "ok", Top.key, instances'[Top.key],
                               FALSE)
            /\ first' = FirstOf(Top.key, instances'[Top.key])
       ELSE /\ stack' = [Below EXCEPT ![Len(Below)] =
                           [@ EXCEPT !.pos = @ + 1,
                                     !.parts = Append(@, instances'[Top.key])]]
            /\ UNCHANGED <<result, first>>
    /\ UNCHANGED <<factories, ncalls, nops, errors, replaced, unnamed>>
    /\ UNCHANGED <<vvars, xvars>>

\* The running factory raises; nothing is stored.
FactoryRaise ==
    /\ stack # << >>
    /\ Top.pos > Len(TopDeps)
    /\ "raise" \in Outcomes(Top.fac)
    /\ Unwind("raised", Top.key)
    /\ UNCHANGED <<vvars, xvars>>

ProvideStep ==
    \E cls \in Classes, factory \in FactoryIds, name \in NameArgs :
        Provide(cls, factory, name)

InvokeStep == \E cls \in Classes, name \in NameArgs : Invoke(cls, name)

\* ------------------------------------------------------------------ Value
Cells == {"c1", "c2"}
\* The cell built from pTape.
RefCell == "c1"

\* gObj     returns a new object
\* gFlaky   returns a new object or raises
\* gDep     calls value() of the cell c2 it closes over, then returns an
\*          object built from it or raises
\* gNone    returns None
\* gOnce    calls value() of its own cell unless it is already running,
\*          then returns a new object or raises
CellFactoryIds == {"gObj", "gFlaky", "gDep", "gOnce"}

VRunning(stk, cell) == \E i \in 1..Len(stk) : stk[i].cell = cell

\* The cells whose value() the factory of cell calls, in order.
CellDeps(factory, cell, below) ==
    CASE factory = "gDep" -> <<"c2">>
      [] factory = "gOnce" -> IF VRunning(below, cell) THEN << >> ELSE <<cell>>
      [] OTHER -> << >>

\* How the factory of the cell can end now; the cell built from pTape has
\* called it vcalls times.
CellOutcomes(factory) ==
    CASE factory \in {"gObj", "gNone"} -> {"return"}
      [] factory = "pTape" -> {tape[vcalls[RefCell]]}
      [] OTHER -> {"return", "raise"}

\* No Value object exists before the application constructs one.
ValueInit ==
    /\ cell_factory = << >>
    /\ cell_value = << >>
    /\ cell_invoked = << >>
    /\ vstack = << >>
    /\ vnextId = 1
    /\ vcalls = << >>
    /\ vresult = NoResult
    /\ vops = 0
    /\ vfirst = << >>

\* Value.__init__
NewValue(cell, factory) ==
    /\ vstack = << >>
    /\ vops < MaxOps
    /\ cell \notin DOMAIN cell_factory
    /\ cell_factory' = SetItem(cell_factory, cell, factory)
    /\ cell_value' = SetItem(cell_value, cell, None)
    /\ cell_invoked' = SetItem(cell_invoked, cell, FALSE)
    /\ vcalls' = SetItem(vcalls, cell, 0)
    /\ vresult' = [op |-> "new", cell |-> cell, fac |-> factory]
    /\ vops' = vops + 1
    /\ UNCHANGED <<vstack, vnextId, vfirst>>
    /\ UNCHANGED <<cvars, xvars>>

\* Mutant of InvokedSet: value() forgets to set the flag.
InvokedNotSet(cell) == cell_invoked

\* Mutant of MustInvoke: the flag is never consulted.
MustInvokeAlways(cell) == TRUE

\* if not self._invoked
MustInvoke(cell) == ~cell_invoked[cell]

VFrame(cell) == [cell |-> cell, pos |-> 1, parts |-> << >>]

\* The object a finished frame returns.
VBuilt(frame) ==
    IF cell_factory[frame.cell] = "gNone" THEN None
    ELSE [id |-> vnextId, by |-> cell_factory[frame.cell],
          parts |-> frame.parts]

VEnded(cell, status, at, value, hit) ==
    [op |-> "value", cell |-> cell, status |-> status, at |-> at,
     value |-> value, hit |-> hit]

\* The first object a top-level value() of cell returned.
VFirstOf(cell, value) ==
    IF cell \in DOMAIN vfirst THEN vfirst ELSE SetItem(vfirst, cell, value)

\* value() called by the application.
ValueCall(cell) ==
    /\ vstack = << >>
    /\ vops < MaxOps
    /\ cell \in DOMAIN cell_factory
    /\ vops' = vops + 1
    /\ IF MustInvoke(cell)
       THEN /\ vstack' = <<VFrame(cell)>>
            /\ vcalls' = [vcalls EXCEPT ![cell] = @ + 1]
            /\ vresult' = [op |-> "value", cell |-> cell, status |-> "running"]
            /\ UNCHANGED <<cell_factory, cell_value, cell_invoked, vnextId,
                           vfirst>>
       ELSE /\ vresult' = VEnded(cell, "ok", cell, cell_value[cell], TRUE)
            /\ vfirst' = VFirstOf(cell, cell_value[cell])
            /\ UNCHANGED <<cell_factory, cell_value, cell_invoked, vstack,
                           vnextId, vcalls>>
    /\ UNCHANGED <<cvars, xvars>>

VTop == vstack[Len(vstack)]
VBelow == SubSeq(vstack, 1, Len(vstack) - 1)
VTopDeps == CellDeps(cell_factory[VTop.cell], VTop.cell, VBelow)

VUnwind(status, at) ==
    /\ vstack' = << >>
    /\ vresult' = VEnded(vresult.cell, status, at, None, FALSE)
    /\ UNCHANGED <<cell_factory, cell_value, cell_invoked, vnextId, vcalls,
                   vops, vfirst>>

\* value() called by the running factory on a cell it closes over.
NestedValue ==
    /\ vstack # << >>
    /\ VTop.pos <= Len(VTopDeps)
    /\ LET cell == VTopDeps[VTop.pos] IN
       IF cell \notin DOMAIN cell_factory
       THEN VUnwind("NameError", cell)
       ELSE IF ~MustInvoke(cell)
       THEN /\ vstack' = [vstack EXCEPT ![Len(vstack)] =
                            [@ EXCEPT !.pos = @ + 1,
                                      !.parts = Append(@, cell_value[cell])]]
            /\ UNCHANGED <<cell_factory, cell_value, cell_invoked, vnextId,
                           vcalls, vresult, vops, vfirst>>
       ELSE IF Len(vstack) >= MaxDepth
       THEN VUnwind("RecursionError", cell)
       ELSE /\ vstack' = Append(vstack, VFrame(cell))
            /\ vcalls' = [vcalls EXCEPT ![cell] = @ + 1]
            /\ UNCHANGED <<cell_factory, cell_value, cell_invoked, vnextId,
                           vresult, vops, vfirst>>
    /\ UNCHANGED <<cvars, xvars>>

\* self._value = self._factory()
ValueStored(cell, value) == [cell_value EXCEPT ![cell] = value]

\* self._invoked = True
InvokedSet(cell) == [cell_invoked EXCEPT ![cell] = TRUE]

\* The running factory returns; value() stores the object, sets the flag
\* and returns self._value to its caller.
CellReturn ==
    /\ vstack # << >>
    /\ VTop.pos > Len(VTopDeps)
    /\ "return" \in CellOutcomes(cell_factory[VTop.cell])
    /\ cell_value' = ValueStored(VTop.cell, VBuilt(VTop))
    /\ cell_invoked' = InvokedSet(VTop.cell)
    /\ vnextId' = vnextId + 1
    /\ IF Len(vstack) = 1
       THEN /\ vstack' = << >>
            /\ vresult' = VEnded(VTop.cell, "ok", VTop.cell,
                                 cell_value'[VTop.cell], FALSE)
            /\ vfirst' = VFirstOf(VTop.cell, cell_value'[VTop.cell])
       ELSE /\ vstack' = [VBelow EXCEPT ![Len(VBelow)] =
                            [@ EXCEPT !.pos = @ + 1,
                                      !.parts = Append(@, cell_value'[VTop.cell])]]
            /\ UNCHANGED <<vresult, vfirst>>
    /\ UNCHANGED <<cell_factory, vcalls, vops>>
    /\ UNCHANGED <<cvars, xvars>>

\* The running factory raises; neither the value nor the flag is set.
CellRaise ==
    /\ vstack # << >>
    /\ VTop.pos > Len(VTopDeps)
    /\ "raise" \in CellOutcomes(cell_factory[VTop.cell])
    /\ VUnwind("raised", VTop.cell)
    /\ UNCHANGED <<cvars, xvars>>

NewValueStep ==
    \E cell \in Cells, factory \in CellFactoryIds : NewValue(cell, factory)

ValueStep == \E cell \in Cells : ValueCall(cell)

\* ------------------------------------------------------------------- wrap
\* How call number n of the plain factory can end.
PlainOutcomes(plain, n) ==
    CASE plain = "pObj" -> {"return"}
      [] plain = "pTape" -> {tape[n]}
      [] OTHER -> {"return", "raise"}

WrapInit ==
    /\ wrappers = {}
    /\ pcalls = [plain \in PlainIds \cup TapedIds |-> 0]
    /\ pnextId = 1
    /\ wresult = NoResult
    /\ wops = 0
    /\ ndirect = 0

\* The object the plain factory creates when it is called now.
PlainResult(plain) == [id |-> pnextId, by |-> plain, parts |-> << >>]

\* wrap(factory) called by the application.
Wrap(plain) ==
    /\ wops < MaxWrapOps
    /\ wops' = wops + 1
    /\ wrappers' = wrappers \cup {Wrapped[plain]}
    /\ wresult' = [op |-> "wrap", plain |-> plain, value |-> Wrapped[plain]]
    /\ UNCHANGED <<pcalls, pnextId, ndirect>>
    /\ UNCHANGED <<cvars, vvars, nwvars>>

\* The containers a wrapped function can be called with.
ContainerArgs == {"self", "other"}

\* wrapped(container) called by the application.
CallWrapped(wrapped, container) ==
    LET plain == PlainOf(wrapped) IN
    /\ wrapped \in wrappers
    /\ wops < MaxWrapOps
    /\ wops' = wops + 1
    /\ ndirect' = ndirect + 1
    /\ pcalls' = [pcalls EXCEPT ![plain] = @ + 1]
    /\ \E outcome \in PlainOutcomes(plain, pcalls[plain] + 1) :
          IF outcome = "return"
          THEN /\ wresult' = [op |-> "call", plain |-> plain,
                              arg |-> container, status |-> "ok",
                              value |-> PlainResult(plain)]
               /\ pnextId' = pnextId + 1
          ELSE /\ wresult' = [op |-> "call", plain |-> plain,
                              arg |-> container, status |-> "raised",
                              value |-> None]
               /\ UNCHANGED pnextId
    /\ UNCHANGED wrappers
    /\ UNCHANGED <<cvars, vvars, nwvars>>

\* wrapped, running inside invoke, calls factory().
PlainCall ==
    /\ stack # << >>
    /\ Top.fac \in WrappedIds
    /\ Top.pos = 1
    /\ LET plain == PlainOf(Top.fac) IN
       /\ pcalls' = [pcalls EXCEPT ![plain] = @ + 1]
       /\ \E outcome \in PlainOutcomes(plain, pcalls[plain] + 1) :
             IF outcome = "return"
             THEN /\ stack' = [stack EXCEPT ![Len(stack)] =
                                 [@ EXCEPT !.pos = 2,
                                           !.parts = <<PlainResult(plain)>>]]
                  /\ pnextId' = pnextId + 1
                  /\ UNCHANGED <<factories, instances, nextId, ncalls, result,
                                 nops, first, errors, replaced, unnamed>>
             ELSE /\ Unwind("raised", Top.key)
                  /\ UNCHANGED pnextId
    /\ UNCHANGED <<wrappers, wresult, wops, ndirect>>
    /\ UNCHANGED <<vvars, nwvars>>

WrapStep == \E plain \in PlainIds : Wrap(plain)

CallWrappedStep ==
    \E wrapped \in WrappedIds, container \in ContainerArgs :
        CallWrapped(wrapped, container)

\* c.provide(Obj, luckydep.wrap(...), name=...)
ProvideWrappedStep ==
    \E wrapped \in wrappers, name \in NameArgs : Provide("T", wrapped, name)

\* c.invoke(Obj, name=...)
InvokeWrappedStep == \E name \in NameArgs : Invoke("T", name)

\* ---------------------------------------------------------------- threads
Threads == {"t1", "t2"}
Targets == {"container", "cell"}
\* The key and the cell the threads share.
ThreadKey == <<"T", DefaultName>>
ThreadCell == "c1"

\* No thread has called anything.
ThreadsInit ==
    /\ tpc = [t \in Threads |-> "idle"]
    /\ ttarget = [t \in Threads |-> "container"]
    /\ tlocal = [t \in Threads |-> None]
    /\ tmissed = [t \in Threads |-> [target \in Targets |-> FALSE]]
    /\ tret = [t \in Threads |-> [target \in Targets |-> NoResult]]
    /\ tops = 0

\* Mutant of MayEnter: a lock around invoke and around value() keeps a
\* thread out while another thread is inside the same call.
MayEnterExclusive(t) ==
    \A u \in Threads \ {t} :
        ttarget[u] # ttarget[t] \/ tpc[u] \in {"idle", "check"}

\* invoke and value() take no lock: a thread proceeds whatever the others
\* are doing.
MayEnter(t) == TRUE

\* A thread calls c.invoke(T) or cell.value().
ThreadBegin(t, target) ==
    /\ tpc[t] = "idle"
    /\ tops < MaxOps
    /\ tops' = tops + 1
    /\ tpc' = [tpc EXCEPT ![t] = "check"]
    /\ ttarget' = [ttarget EXCEPT ![t] = target]
    /\ UNCHANGED <<tlocal, tmissed, tret>>
    /\ UNCHANGED <<cvars, vvars, ntvars>>

\* if identifier in self._instances / if not self._invoked
ThreadCheck(t) ==
    /\ tpc[t] = "check"
    /\ MayEnter(t)
    /\ LET miss == IF ttarget[t] = "container" THEN ~Cached(ThreadKey)
                   ELSE MustInvoke(ThreadCell)
       IN /\ tpc' = [tpc EXCEPT ![t] = IF miss THEN "call" ELSE "return"]
          /\ tmissed' = [tmissed EXCEPT ![t][ttarget[t]] = @ \/ miss]
    /\ UNCHANGED <<ttarget, tlocal, tret, tops>>
    /\ UNCHANGED <<cvars, vvars, ntvars>>

\* self._factories[cls, name](self) / self._factory(): the factory runs and
\* returns a new object to the thread.
ThreadCall(t) ==
    /\ tpc[t] = "call"
    /\ tpc' = [tpc EXCEPT ![t] = "store"]
    /\ IF ttarget[t] = "container"
       THEN /\ tlocal' = [tlocal EXCEPT ![t] =
                            [id |-> nextId, by |-> Lookup(ThreadKey),
                             parts |-> << >>]]
            /\ nextId' = nextId + 1
            /\ ncalls' = [ncalls EXCEPT ![ThreadKey] = @ + 1]
            /\ UNCHANGED <<vnextId, vcalls>>
       ELSE /\ tlocal' = [tlocal EXCEPT ![t] =
                            [id |-> vnextId, by |-> cell_factory[ThreadCell],
                             parts |-> << >>]]
            /\ vnextId' = vnextId + 1
            /\ vcalls' = [vcalls EXCEPT ![ThreadCell] = @ + 1]
            /\ UNCHANGED <<nextId, ncalls>>
    /\ UNCHANGED <<factories, instances, stack, result, nops, first, errors,
                   replaced, unnamed>>
    /\ UNCHANGED <<cell_factory, cell_value, cell_invoked, vstack, vresult,
                   vops, vfirst>>
    /\ UNCHANGED <<ttarget, tmissed, tret, tops>>
    /\ UNCHANGED ntvars

\* self._instances[identifier] = ... / self._value = ...
ThreadStore(t) ==
    /\ tpc[t] = "store"
    /\ IF ttarget[t] = "container"
       THEN /\ instances' = SetItem(instances, ThreadKey, tlocal[t])
            /\ tpc' = [tpc EXCEPT ![t] = "return"]
            /\ UNCHANGED cell_value
       ELSE /\ cell_value' = [cell_value EXCEPT ![ThreadCell] = tlocal[t]]
            /\ tpc' = [tpc EXCEPT ![t] = "flag"]
            /\ UNCHANGED instances
    /\ UNCHANGED <<factories, stack, nextId, ncalls, result, nops, first,
                   errors, replaced, unnamed>>
    /\ UNCHANGED <<cell_factory, cell_invoked, vstack, vnextId, vcalls,
                   vresult, vops, vfirst>>
    /\ UNCHANGED <<ttarget, tlocal, tmissed, tret, tops>>
    /\ UNCHANGED ntvars

\* self._invoked = True
ThreadFlag(t) ==
    /\ tpc[t] = "flag"
    /\ cell_invoked' = [cell_invoked EXCEPT ![ThreadCell] = TRUE]
    /\ tpc' = [tpc EXCEPT ![t] = "return"]
    /\ UNCHANGED <<cell_factory, cell_value, vstack, vnextId, vcalls,
                   vresult, vops, vfirst>>
    /\ UNCHANGED <<ttarget, tlocal, tmissed, tret, tops>>
    /\ UNCHANGED <<cvars, ntvars>>

\* return self._instances[identifier] / return self._value
ThreadReturn(t) ==
    /\ tpc[t] = "return"
    /\ tpc' = [tpc EXCEPT ![t] = "idle"]
    /\ tret' = [tret EXCEPT ![t][ttarget[t]] =
                   IF ttarget[t] = "container" THEN instances[ThreadKey]
                   ELSE cell_value[ThreadCell]]
    /\ UNCHANGED <<ttarget, tlocal, tmissed, tops>>
    /\ UNCHANGED <<cvars, vvars, ntvars>>

ThreadBeginStep ==
    \E t \in Threads, target \in Targets : ThreadBegin(t, target)
ThreadCheckStep == \E t \in Threads : ThreadCheck(t)
ThreadCallStep == \E t \in Threads : ThreadCall(t)
ThreadStoreStep == \E t \in Threads : ThreadStore(t)
ThreadFlagStep == \E t \in Threads : ThreadFlag(t)
ThreadReturnStep == \E t \in Threads : ThreadReturn(t)

\* -------------------------------------------------------- other instances
\* No tape: pTape is not used.
NoTape == tape = << >>

\* Container.__init__ of the second Container
OtherInit ==
    /\ other_factories = << >>
    /\ other_instances = << >>
    /\ other_nextId = 1
    /\ other_ncalls = [k \in Keys |-> 0]
    /\ other_result = NoResult
    /\ other_ops = 0

\* Mutant of Private: the mapping is a class attribute, one dict shared by
\* all Containers.
SharedByClass(own, key, value) == SetItem(own, key, value)

\* self._factories = {} and self._instances = {} in __init__: the mapping
\* own of one Container after another Container stored value under key in
\* its mapping of the same name.
Private(own, key, value) == own

\* The object a factory creates for the second Container.
OtherBuilt(factory) ==
    [id |-> 0 - other_nextId, by |-> factory, parts |-> << >>]

\* provide on the second Container
OtherProvide(cls, factory, name) ==
    LET key == <<cls, ProvideName(name)>> IN
    /\ stack = << >>
    /\ other_ops' = other_ops + 1
    /\ other_factories' = SetItem(other_factories, key, factory)
    /\ factories' = Private(factories, key, factory)
    /\ other_result' = [op |-> "provide", key |-> key, fac |-> factory]
    /\ UNCHANGED <<other_instances, other_nextId, other_ncalls>>
    /\ UNCHANGED <<instances, stack, nextId, ncalls, result, nops, first,
                   errors, replaced, unnamed>>
    /\ UNCHANGED <<vvars, wvars, tvars, rvars>>

\* invoke on the second Container, whose factories resolve nothing: the
\* cache hit, the missing factory, or the factory returns or raises.
OtherInvoke(cls, name) ==
    LET identifier == Identifier(cls, InvokeName(name)) IN
    /\ stack = << >>
    /\ other_ops' = other_ops + 1
    /\ IF identifier \in DOMAIN other_instances
       THEN /\ other_result' = [op |-> "invoke", key |-> identifier,
                                status |-> "ok", hit |-> TRUE,
                                value |-> other_instances[identifier]]
            /\ UNCHANGED <<other_instances, other_nextId, other_ncalls,
                           instances>>
       ELSE IF identifier \notin DOMAIN other_factories
       THEN /\ other_result' = [op |-> "invoke", key |-> identifier,
                                status |-> "KeyError", hit |-> FALSE,
                                value |-> None]
            /\ UNCHANGED <<other_instances, other_nextId, other_ncalls,
                           instances>>
       ELSE /\ other_ncalls' = [other_ncalls EXCEPT ![identifier] = @ + 1]
            /\ \E outcome \in Outcomes(other_factories[identifier]) :
                  IF outcome = "return"
                  THEN LET value ==
                               OtherBuilt(other_factories[identifier]) IN
                       /\ other_instances' =
                              SetItem(other_instances, identifier, value)
                       /\ instances' = Private(instances, identifier, value)
                       /\ other_nextId' = other_nextId + 1
                       /\ other_result' =
                              [op |-> "invoke", key |-> identifier,
                               status |-> "ok", hit |-> FALSE,
                               value |-> value]
                  ELSE /\ other_result' =
                              [op |-> "invoke", key |-> identifier,
                               status |-> "raised", hit |-> FALSE,
                               value |-> None]
                       /\ UNCHANGED <<other_instances, other_nextId,
                                      instances>>
    /\ UNCHANGED other_factories
    /\ UNCHANGED <<factories, stack, nextId, ncalls, result, nops, first,
                   errors, replaced, unnamed>>
    /\ UNCHANGED <<vvars, wvars, tvars, rvars>>

\* Calls of the application on two Containers and two Values: the next
\* call is made when the one before it has ended.
TwoBudget ==
    /\ stack = << >>
    /\ vstack = << >>
    /\ nops + other_ops + vops < MaxTwoOps
TwoProvide ==
    /\ TwoBudget
    /\ \E factory \in {"fObj", "fFlaky"} : Provide("T", factory, Omitted)
TwoInvoke == TwoBudget /\ Invoke("T", Omitted)
TwoOtherProvide ==
    /\ TwoBudget
    /\ \E factory \in {"fObj", "fFlaky"} :
          OtherProvide("T", factory, Omitted)
TwoOtherInvoke == TwoBudget /\ OtherInvoke("T", Omitted)
TwoNew == TwoBudget /\ \E cell \in Cells : NewValue(cell, "gFlaky")
TwoValue == TwoBudget /\ \E cell \in Cells : ValueCall(cell)

\* ---------------------------------------------------------- specifications
Init ==
    ContainerInit /\ ValueInit /\ WrapInit /\ ThreadsInit /\ NoTape
    /\ OtherInit

Next ==
    \/ ProvideStep
    \/ InvokeStep
    \/ NestedInvoke
    \/ FactoryReturn
    \/ FactoryRaise

\* One Container used by a single-threaded application.
Spec == Init /\ [][Next]_vars

VNext ==
    \/ NewValueStep
    \/ ValueStep
    \/ NestedValue
    \/ CellReturn
    \/ CellRaise

\* Value cells used by a single-threaded application.
SpecValue == Init /\ [][VNext]_vars

\* The factories of a diamond: ("U", "a") is built from ("T", "default")
\* and ("T", "a"), each of them from ("U", "default"), whose factory is
\* base.
Diamond(base) ==
    [key \in Keys |->
        CASE key = <<"U", "a">> -> "fTop"
          [] key = <<"U", DefaultName>> -> base
          [] OTHER -> "fDep"]

\* A container after the application has provided the factories.
ProvidedInit(bases) ==
    /\ \E base \in bases : factories = Diamond(base)
    /\ instances = << >>
    /\ stack = << >>
    /\ nextId = 1
    /\ ncalls = [k \in Keys |-> 0]
    /\ result = NoResult
    /\ nops = 0
    /\ first = << >>
    /\ errors = {}
    /\ replaced = {}
    /\ unnamed = {}
    /\ ValueInit
    /\ WrapInit
    /\ ThreadsInit
    /\ NoTape
    /\ OtherInit

GraphInit == ProvidedInit({"fObj", "fFlaky", "fOnce"})

GNext ==
    \/ InvokeStep
    \/ NestedInvoke
    \/ FactoryReturn
    \/ FactoryRaise

\* One Container whose factories form a diamond, resolved by a
\* single-threaded application.
SpecGraph == GraphInit /\ [][GNext]_vars

\* The container with a factory provided for the shared key and the
\* constructed cell, before any thread has called them.
SharedInit ==
    /\ factories = (ThreadKey :> "fObj")
    /\ instances = << >>
    /\ stack = << >>
    /\ nextId = 1
    /\ ncalls = [k \in Keys |-> 0]
    /\ result = NoResult
    /\ nops = 0
    /\ first = << >>
    /\ errors = {}
    /\ replaced = {}
    /\ unnamed = {}
    /\ cell_factory = (ThreadCell :> "gObj")
    /\ cell_value = (ThreadCell :> None)
    /\ cell_invoked = (ThreadCell :> FALSE)
    /\ vstack = << >>
    /\ vnextId = 1
    /\ vcalls = (ThreadCell :> 0)
    /\ vresult = NoResult
    /\ vops = 0
    /\ vfirst = << >>
    /\ WrapInit
    /\ ThreadsInit
    /\ NoTape
    /\ OtherInit

TNext ==
    \/ ThreadBeginStep
    \/ ThreadCheckStep
    \/ ThreadCallStep
    \/ ThreadStoreStep
    \/ ThreadFlagStep
    \/ ThreadReturnStep

\* One Container and one Value shared by two threads; a thread switch can
\* happen between any two statements of invoke and of value().
SpecThreads == SharedInit /\ [][TNext]_vars

\* The key provided with wrap(pTape).
RefKey == <<"T", DefaultName>>

\* A run in which the calls of pTape end as some tape says.
RefineInit ==
    /\ ContainerInit
    /\ ValueInit
    /\ WrapInit
    /\ ThreadsInit
    /\ OtherInit
    /\ tape \in [1..MaxOps -> TapeOutcomes]

\* luckydep.Value(f)
RefNew == NewValue(RefCell, "pTape")
\* cell.value()
RefValue == ValueCall(RefCell)
\* luckydep.wrap(f)
RefWrap == wrappers = {} /\ Wrap("pTape")
\* c.provide(T, wrapped), once
RefProvide ==
    /\ "wTape" \in wrappers
    /\ factories = << >>
    /\ Provide("T", "wTape", Omitted)
\* c.invoke(T)
RefInvoke == factories # << >> /\ Invoke("T", Omitted)

RNext ==
    \/ RefNew
    \/ RefValue
    \/ CellReturn
    \/ CellRaise
    \/ RefWrap
    \/ RefProvide
    \/ RefInvoke
    \/ PlainCall
    \/ FactoryReturn

\* A Value built from f beside a Container with one key provided with
\* wrap(f), each with its own run of f that follows the same tape.
SpecRefine == RefineInit /\ [][RNext]_vars

\* c.provide(T, lambda c: None, name=...)
NoneProvide == \E name \in NameArgs : Provide("T", "fNone", name)
\* c.invoke(T, name=...)
NoneInvoke == \E name \in NameArgs : Invoke("T", name)
\* luckydep.Value(lambda: None)
NoneNew == \E cell \in Cells : NewValue(cell, "gNone")

\* The diamond with factories that always return.
DagInit == ProvidedInit({"fObj", "fNone"})

DagNext ==
    \/ InvokeStep
    \/ NestedInvoke
    \/ FactoryReturn

\* One Container whose factories form a diamond and always return, used
\* by a single-threaded application; the call in progress keeps running.
SpecDag ==
    /\ DagInit
    /\ [][DagNext]_vars
    /\ WF_vars(NestedInvoke)
    /\ WF_vars(FactoryReturn)

NoneNext ==
    \/ NoneProvide
    \/ NoneInvoke
    \/ FactoryReturn
    \/ NoneNew
    \/ ValueStep
    \/ CellReturn

\* A Container and Values whose factories return None.
SpecNone == Init /\ [][NoneNext]_vars

TwoNext ==
    \/ TwoProvide
    \/ TwoInvoke
    \/ FactoryReturn
    \/ FactoryRaise
    \/ TwoOtherProvide
    \/ TwoOtherInvoke
    \/ TwoNew
    \/ TwoValue
    \/ CellReturn
    \/ CellRaise

\* Two Containers and two Values used by a single-threaded application.
SpecTwo == Init /\ [][TwoNext]_vars

WNext ==
    \/ WrapStep
    \/ CallWrappedStep
    \/ ProvideWrappedStep
    \/ InvokeWrappedStep
    \/ PlainCall
    \/ FactoryReturn

\* One Container whose factories are made by wrap.
SpecWrap == Init /\ [][WNext]_vars

\* ------------------------------------------------------------ properties
\* Steps of the application and of the running factories.
AppCall == nops' = nops + 1
InvokeCall == AppCall /\ result'.op = "invoke"
ProvideCall == AppCall /\ result'.op = "provide"
\* The outermost invoke returns an object in this step.
Returned ==
    /\ result'.op = "invoke"
    /\ result'.status = "ok"
    /\ AppCall \/ stack # << >>
\* The outermost invoke ends with exception in this step.
Raised(exception) ==
    /\ result'.op = "invoke"
    /\ result'.status = exception
    /\ AppCall \/ stack # << >>
\* A factory starts running in this step.
Started == Len(stack') > Len(stack)
NewFrame == stack'[Len(stack')]
\* The cache entry of key is created or changed in this step.
EntryChanged(key) ==
    \/ (key \in DOMAIN instances) # (key \in DOMAIN instances')
    \/ key \in DOMAIN instances /\ instances'[key] # instances[key]
FactoryEntryChanged(key) ==
    \/ (key \in DOMAIN factories) # (key \in DOMAIN factories')
    \/ key \in DOMAIN factories /\ factories'[key] # factories[key]

\* C1 as stated: over sequential invokes of a key whose factory resolves
\* nothing itself, the factory is invoked exactly once.  Fails when an
\* invocation raised and the next invoke retried it.
C1_ExactlyOnceAsStated ==
    (result.op = "invoke" /\ result.status = "ok"
        /\ Deps(result.value.by, result.key, << >>) = << >>)
    => ncalls[result.key] = 1

\* C1 (amended): once an invoke called by the application has returned an
\* object for a key, every later invoke of that key returns that same
\* object, the entry of the key stays that object, and no factory is invoked
\* for the key again; an invoke that finds its key cached invokes no factory
\* and changes neither mapping.
C1_Singleton ==
    [][/\ \A k \in DOMAIN first :
            /\ k \in DOMAIN instances'
            /\ instances'[k] = first[k]
            /\ ncalls'[k] = ncalls[k]
       /\ Returned => result'.value = first'[result'.key]
       /\ (InvokeCall /\ result'.key \in DOMAIN instances) =>
            /\ result'.status = "ok"
            /\ result'.hit
            /\ UNCHANGED <<factories, instances, ncalls, stack, nextId>>
      ]_vars

\* A later invoke of a resolved key returned the object of the first one,
\* after one invocation of the factory.
C1_Witness ==
    /\ result.op = "invoke"
    /\ result.status = "ok"
    /\ result.hit
    /\ result.value = first[result.key]
    /\ ncalls[result.key] = 1

\* C2 as stated: once a key has an entry in instances, in every step, the
\* steps of nested and re-entrant invokes included, the entry keeps its
\* value and no factory is invoked for the key.
C2_InstanceImmutable ==
    [][\A k \in DOMAIN instances :
            /\ k \in DOMAIN instances'
            /\ instances'[k] = instances[k]
            /\ ncalls'[k] = ncalls[k]
      ]_vars

\* C3: an invoke of a key that is neither cached nor provided raises
\* KeyError, starts no factory and leaves factories and instances as they
\* were; KeyError is raised in no other case; and a key that missed is
\* resolved as any other once it is provided.
C3_MissingKey ==
    [][/\ (InvokeCall /\ result'.key \notin DOMAIN factories
              /\ result'.key \notin DOMAIN instances) =>
            /\ result'.status = "KeyError"
            /\ result'.at = result'.key
            /\ stack' = << >>
            /\ UNCHANGED <<factories, instances, ncalls, nextId>>
       /\ Raised("KeyError") =>
            /\ result'.at \notin DOMAIN factories
            /\ result'.at \notin DOMAIN instances
            /\ stack' = << >>
            /\ UNCHANGED <<factories, instances, ncalls, nextId>>
       /\ (InvokeCall /\ <<result'.key, "KeyError">> \in errors
              /\ result'.key \in DOMAIN factories
              /\ result'.key \notin DOMAIN instances) =>
            /\ stack' = <<[key |-> result'.key, fac |-> factories[result'.key],
                           pos |-> 1, parts |-> << >>]>>
            /\ ncalls'[result'.key] = ncalls[result'.key] + 1
      ]_vars

\* A key that missed was provided afterwards and an invoke of it returned
\* the object its factory made.
C3_Witness ==
    /\ result.op = "invoke"
    /\ result.status = "ok"
    /\ ~result.hit
    /\ <<result.key, "KeyError">> \in errors
    /\ instances[result.key] = result.value

\* C4 as stated: when a factory raises, the outermost invoke ends with that
\* error, no mapping changes in the step, neither the key of the factory
\* that raised nor the key of the outermost invoke has an entry, the
\* entries made by nested invokes before stay, and the next invoke of the
\* key starts its factory again.  Fails for a factory that re-enters the
\* invoke of its own key and then raises: the nested invoke has cached the
\* key.
C4_FactoryFailure ==
    [][/\ Raised("raised") =>
            /\ stack # << >>
            /\ stack' = << >>
            /\ result'.at = Top.key
            /\ UNCHANGED <<factories, instances>>
            /\ result'.at \notin DOMAIN instances'
            /\ result'.key \notin DOMAIN instances'
       /\ (result.op = "invoke" /\ result.status = "raised" /\ InvokeCall
              /\ result'.key = result.key) =>
            /\ Started
            /\ NewFrame = [key |-> result.key, fac |-> factories[result.key],
                           pos |-> 1, parts |-> << >>]
            /\ ncalls'[result.key] = ncalls[result.key] + 1
      ]_vars

\* Steps of the application on Value cells.
VAppCall == vops' = vops + 1
VReturned ==
    /\ vresult'.op = "value"
    /\ vresult'.status = "ok"
    /\ VAppCall \/ vstack # << >>

\* C5 as stated: over sequential value() calls on a cell whose factory
\* calls no other cell, the factory is invoked exactly once in total.  Fails
\* when an invocation raised and the next value() retried it.
C5_ExactlyOnceAsStated ==
    (vresult.op = "value" /\ vresult.status = "ok"
        /\ CellDeps(cell_factory[vresult.cell], vresult.cell, << >>) = << >>)
    => vcalls[vresult.cell] = 1

\* C5 (amended): constructing a Value invokes no factory; the first value()
\* call invokes the factory; once a value() call made by the application
\* has returned, the factory is never invoked again, the flag stays set and
\* every later call returns the object that call returned.
C5_LazyMemo ==
    [][/\ (VAppCall /\ vresult'.op = "new") =>
            /\ vcalls'[vresult'.cell] = 0
            /\ ~cell_invoked'[vresult'.cell]
            /\ cell_value'[vresult'.cell] = None
            /\ cell_factory'[vresult'.cell] = vresult'.fac
            /\ vstack' = << >>
            /\ vnextId' = vnextId
       /\ (VAppCall /\ vresult'.op = "value" /\ vcalls[vresult'.cell] = 0) =>
            /\ vstack' = <<[cell |-> vresult'.cell, pos |-> 1,
                            parts |-> << >>]>>
            /\ vcalls'[vresult'.cell] = 1
       /\ \A c \in DOMAIN vfirst :
            /\ vcalls'[c] = vcalls[c]
            /\ cell_invoked'[c]
            /\ cell_value'[c] = vfirst[c]
       /\ VReturned => vresult'.value = vfirst'[vresult'.cell]
      ]_vars

\* A later value() of a resolved cell returned the object of the first one,
\* after one invocation of the factory.
C5_Witness ==
    /\ vresult.op = "value"
    /\ vresult.status = "ok"
    /\ vresult.hit
    /\ vresult.value = vfirst[vresult.cell]
    /\ vcalls[vresult.cell] = 1

\* C6: provide invokes no factory and changes nothing but the factories
\* entry of its key: instances, the running factories, the objects created
\* and the factories entries of all other keys stay as they were.
C6_ProvideLocal ==
    [][ProvideCall =>
            /\ factories'[result'.key] = result'.fac
            /\ DOMAIN factories' = DOMAIN factories \cup {result'.key}
            /\ \A k \in Keys \ {result'.key} : ~FactoryEntryChanged(k)
            /\ UNCHANGED <<instances, ncalls, nextId, stack>>
            /\ stack' = << >>
      ]_vars

\* provide was called for one key while another key had a factory and a
\* cached instance.
C6_Witness ==
    /\ result.op = "provide"
    /\ \E k \in DOMAIN instances :
            k # result.key /\ k \in DOMAIN factories /\ ncalls[k] = 1
    /\ ncalls[result.key] = 0

\* C7: providing a factory for a key that is resolved sets the factories
\* entry and leaves the cached instance; every invoke of a cached key
\* returns the cached instance without starting a factory, and no factory
\* is ever started for a key that has a cached instance.
C7_ResolvedTerminal ==
    [][/\ (ProvideCall /\ result'.key \in DOMAIN instances) =>
            /\ factories'[result'.key] = result'.fac
            /\ result'.key \in DOMAIN instances'
            /\ instances'[result'.key] = instances[result'.key]
       /\ (InvokeCall /\ result'.key \in DOMAIN instances) =>
            /\ result'.status = "ok"
            /\ result'.value = instances[result'.key]
            /\ ~Started
            /\ ncalls' = ncalls
       /\ Started => NewFrame.key \notin DOMAIN instances
      ]_vars

\* A resolved key was provided with another factory and invoked again: the
\* instance is the one made by the earlier factory, made by one invocation.
C7_Witness ==
    /\ result.op = "invoke"
    /\ result.status = "ok"
    /\ result.hit
    /\ factories[result.key] # result.value.by
    /\ result.value = first[result.key]
    /\ ncalls[result.key] = 1

\* No factory that was overwritten before its key was resolved is the
\* factory of the key, runs for the key or made the instance of the key.
NeverUsed ==
    \A p \in replaced :
        /\ factories[p[1]] # p[2]
        /\ \A i \in 1..Len(stack) :
                stack[i].key = p[1] => stack[i].fac # p[2]
        /\ p[1] \in DOMAIN instances => instances[p[1]].by # p[2]

\* C8: provide overwrites the factory of its key, so when a key is provided
\* with f1 and then with f2 before it is resolved, the invoke runs the
\* factory provided last and caches what that factory returns; f1 is not
\* invoked.
C8_Overwrite ==
    [][/\ NeverUsed'
       /\ ProvideCall => factories'[result'.key] = result'.fac
       /\ Started => NewFrame.fac = factories'[NewFrame.key]
       /\ (Returned /\ ~result'.hit) =>
            instances'[result'.key].by = factories'[result'.key]
      ]_vars

\* A key was provided twice with different factories before its first
\* invoke, which ran the second factory once and cached its object.
C8_Witness ==
    /\ result.op = "invoke"
    /\ result.status = "ok"
    /\ ~result.hit
    /\ ncalls[result.key] = 1
    /\ \E f \in FactoryIds : <<result.key, f>> \in replaced
    /\ instances[result.key].by = factories[result.key]

\* C9: keys of one class with different names are independent: an invoke
\* called with a name acts on the key of exactly that name, runs the
\* factory provided under it, and an instances entry is created or changed
\* only by the return of a factory that ran for exactly that key.
C9_NameIsolation ==
    [][/\ (InvokeCall /\ result'.name \in Names) =>
            /\ result'.key = <<result'.cls, result'.name>>
            /\ \A k \in Keys \ {<<result'.cls, result'.name>>} :
                    ncalls'[k] = ncalls[k]
            /\ Started =>
                    /\ NewFrame.key = <<result'.cls, result'.name>>
                    /\ NewFrame.fac = factories[<<result'.cls, result'.name>>]
       /\ \A k \in Keys :
            /\ ncalls'[k] # ncalls[k] => Started /\ NewFrame.key = k
            /\ EntryChanged(k) =>
                    /\ stack # << >>
                    /\ Top.key = k
                    /\ instances'[k].by = Top.fac
                    /\ \A other \in Keys \ {k} : ~EntryChanged(other)
      ]_vars

\* Both names of one class are resolved, each by one invocation of its own
\* factory, to different objects.
C9_Witness ==
    \E cls \in Classes :
        /\ <<cls, "a">> \in DOMAIN instances
        /\ <<cls, DefaultName>> \in DOMAIN instances
        /\ instances[<<cls, "a">>] # instances[<<cls, DefaultName>>]
        /\ instances[<<cls, "a">>].by = factories[<<cls, "a">>]
        /\ instances[<<cls, DefaultName>>].by = factories[<<cls, DefaultName>>]
        /\ factories[<<cls, "a">>] # factories[<<cls, DefaultName>>]
        /\ ncalls[<<cls, "a">>] = 1
        /\ ncalls[<<cls, DefaultName>>] = 1

\* C10: provide without a name sets the factory of (cls, "default"); invoke
\* without a name and invoke with name "default" act on that same key and
\* return its one cached instance; invoke with another name that is neither
\* provided nor cached raises KeyError, whatever is provided under
\* "default".
C10_DefaultName ==
    [][/\ (ProvideCall /\ result'.name = Omitted) =>
            /\ <<result'.cls, "default">> \in DOMAIN factories'
            /\ factories'[<<result'.cls, "default">>] = result'.fac
            /\ \A k \in Keys \ {<<result'.cls, "default">>} :
                    ~FactoryEntryChanged(k)
       /\ (InvokeCall /\ result'.name \in {Omitted, "default"}) =>
            /\ result'.key = <<result'.cls, "default">>
            /\ <<result'.cls, "default">> \in DOMAIN instances =>
                    /\ result'.status = "ok"
                    /\ result'.value = instances[<<result'.cls, "default">>]
                    /\ ncalls' = ncalls
       /\ (Returned /\ result'.name \in {Omitted, "default"}) =>
            result'.value = first'[<<result'.cls, "default">>]
       /\ (InvokeCall /\ result'.name \in Names \ {"default"}
              /\ <<result'.cls, result'.name>> \notin DOMAIN factories
              /\ <<result'.cls, result'.name>> \notin DOMAIN instances) =>
            result'.status = "KeyError"
      ]_vars

\* A class was provided without a name and invoked without a name, and an
\* invoke with name "default" returned the instance the first one made.
C10_Witness ==
    /\ result.op = "invoke"
    /\ result.name = "default"
    /\ result.status = "ok"
    /\ result.hit
    /\ <<"provide", result.cls>> \in unnamed
    /\ <<"invoke", result.cls>> \in unnamed
    /\ factories[result.key] = result.value.by
    /\ ncalls[result.key] = 1

\* Steps of the application on wrap and on wrapped functions.
WrapCall == wops' = wops + 1 /\ wresult'.op = "wrap"
DirectCall == wops' = wops + 1 /\ wresult'.op = "call"
\* wrapped is about to call factory(), directly under invoke.
AtPlainCall == stack # << >> /\ Top.fac \in WrappedIds /\ Top.pos = 1
CallsOfAll == pcalls["pObj"] + pcalls["pFlaky"]
InvocationsOfAll ==
    ncalls[<<"T", DefaultName>>] + ncalls[<<"T", "a">>]
    + ncalls[<<"U", DefaultName>>] + ncalls[<<"U", "a">>]

\* C11: wrap(f) calls nothing and leaves the container alone; every call
\* of wrapped, by the application with any container argument or by
\* invoke, calls f exactly once and returns the object that call of f
\* created, never an earlier one; the container is changed by invoke only,
\* so a key provided with wrap(f) resolves to the result of f.
C11_WrapAdapts ==
    [][/\ WrapCall =>
           /\ pcalls' = pcalls
           /\ pnextId' = pnextId
           /\ UNCHANGED <<factories, instances, stack, ncalls>>
       /\ DirectCall =>
           /\ pcalls' = [pcalls EXCEPT ![wresult'.plain] = @ + 1]
           /\ wresult'.status = "ok" =>
                 wresult'.value = [id |-> pnextId, by |-> wresult'.plain,
                                   parts |-> << >>]
           /\ UNCHANGED <<factories, instances, stack, ncalls>>
       /\ pcalls' # pcalls => DirectCall \/ AtPlainCall
       /\ AtPlainCall =>
           \/ stack' = stack
           \/ /\ pcalls' = [pcalls EXCEPT ![PlainOf(Top.fac)] = @ + 1]
              /\ \/ Raised("raised") /\ instances' = instances
                 \/ /\ Len(stack') = Len(stack)
                    /\ NewFrame.pos = 2
                    /\ NewFrame.parts =
                           <<[id |-> pnextId, by |-> PlainOf(Top.fac),
                              parts |-> << >>]>>
       /\ (Returned /\ ~result'.hit /\ Top.fac \in WrappedIds) =>
           /\ pcalls' = pcalls
           /\ result'.value = Top.parts[1]
           /\ result'.value.by = PlainOf(Top.fac)
           /\ instances' = SetItem(instances, Top.key, Top.parts[1])
       /\ (CallsOfAll = ndirect + InvocationsOfAll
                         - (IF AtPlainCall THEN 1 ELSE 0))'
      ]_vars

\* A key provided with wrap(pFlaky) was resolved after one failed attempt,
\* and a direct call of the same wrapped function returned another object.
C11_Witness ==
    /\ result.op = "invoke"
    /\ result.status = "ok"
    /\ ~result.hit
    /\ result.value.by = "pFlaky"
    /\ <<result.key, "raised">> \in errors
    /\ wresult.op = "call"
    /\ wresult.status = "ok"
    /\ wresult.plain = "pFlaky"
    /\ wresult.arg = "other"
    /\ wresult.value # result.value
    /\ pcalls["pFlaky"] = 3

\* The state of key: 0 Unregistered, 1 Registered (a factory, no
\* instance), 2 Resolved (an instance is cached).
KeyState(key) ==
    IF key \in DOMAIN instances THEN 2
    ELSE IF key \in DOMAIN factories THEN 1 ELSE 0

\* C12: in every step every key keeps its state or moves forward;
\* Unregistered is left only to Registered and only by a provide of the
\* key, Registered is left only to Resolved and only when the factory
\* running for the key returns, a factory entry changes only by a provide
\* of the key, an invoke that raises leaves every state as it was, and
\* the keys of instances are keys of factories.
C12_KeyStateMachine ==
    [][/\ \A key \in Keys :
            /\ KeyState(key)' >= KeyState(key)
            /\ KeyState(key) = 0 /\ KeyState(key)' # 0 =>
                  /\ KeyState(key)' = 1
                  /\ ProvideCall
                  /\ result'.key = key
            /\ KeyState(key) = 1 /\ KeyState(key)' # 1 =>
                  /\ KeyState(key)' = 2
                  /\ stack # << >>
                  /\ Top.key = key
                  /\ Len(stack') = Len(stack) - 1
                  /\ instances'[key].by = factories[key]
            /\ FactoryEntryChanged(key) =>
                  ProvideCall /\ result'.key = key
            /\ (\E e \in {"raised", "KeyError", "RecursionError"} :
                    Raised(e)) => KeyState(key)' = KeyState(key)
       /\ DOMAIN instances' \subseteq DOMAIN factories'
      ]_vars

\* A key went through every transition: provided, provided again with
\* another factory that resolves nothing, an invoke whose factory raised
\* and an invoke whose factory returned.
C12_Witness ==
    /\ result.op = "invoke"
    /\ result.status = "ok"
    /\ ~result.hit
    /\ KeyState(result.key) = 2
    /\ Deps(factories[result.key], result.key, << >>) = << >>
    /\ <<result.key, "raised">> \in errors
    /\ \E factory \in FactoryIds : <<result.key, factory>> \in replaced

\* The keys other than key that the factory provided for key resolves.
DepsOf(key) ==
    {dep \in Keys \ {key} :
        \E i \in 1..Len(Deps(factories[key], key, << >>)) :
            Deps(factories[key], key, << >>)[i] = dep}
\* No running factory: every call of the application has ended.
Idle == stack = << >>

\* C13 as stated: once A is resolved, the factory of a key B it was built
\* from has been invoked at most once.  Fails when an invocation of B's
\* factory raised and a later resolve retried it.
C13_AtMostOnceAsStated ==
    Idle =>
        \A A \in DOMAIN instances : \A B \in DepsOf(A) :
            Deps(factories[B], B, << >>) = << >> => ncalls[B] <= 1

\* C13: whenever no call is running, every cached A whose factory resolves
\* another key B has B cached too and was built from the very instance
\* cached for B, which is what a later invoke of B returns; from the
\* moment B is cached its factory is never invoked again, whichever
\* dependent resolves it.
C13_NestedMemo ==
    [][/\ Idle' =>
           \A A \in DOMAIN instances' :
               \A i \in 1..Len(Deps(factories[A], A, << >>)) :
                   LET dep == Deps(factories[A], A, << >>)[i] IN
                   dep # A =>
                       /\ dep \in DOMAIN instances'
                       /\ Len(instances'[A].parts) >= i
                       /\ instances'[A].parts[i] = instances'[dep]
       /\ \A B \in Keys :
           /\ Cached(B) => ncalls'[B] = ncalls[B]
           /\ (InvokeCall /\ result'.key = B /\ Cached(B)) =>
                 /\ result'.status = "ok"
                 /\ result'.value = instances[B]
      ]_vars

\* The diamond was resolved from its top: both middle objects were built
\* from the one instance of ("U", "default"), made by the single
\* invocation of its factory, and a later invoke of that key returned it.
C13_Witness ==
    /\ result.op = "invoke"
    /\ result.status = "ok"
    /\ result.hit
    /\ result.key = <<"U", DefaultName>>
    /\ <<"U", "a">> \in DOMAIN instances
    /\ instances[<<"U", "a">>].parts =
          <<instances[<<"T", DefaultName>>], instances[<<"T", "a">>]>>
    /\ instances[<<"T", DefaultName>>].parts = <<result.value>>
    /\ instances[<<"T", "a">>].parts = <<result.value>>
    /\ instances[<<"T", "a">>] # instances[<<"T", DefaultName>>]
    /\ ncalls[<<"U", DefaultName>>] = 1

\* The key that fDep resolves: provided for it, fDep resolves the key it
\* is running for, unconditionally.
SelfKey == <<"U", DefaultName>>
SelfRunning == stack # << >> /\ Top.fac = "fDep" /\ Top.key = SelfKey
\* The running factory is about to resolve the key it is running for.
AtSelfInvoke ==
    /\ stack # << >>
    /\ Top.pos <= Len(TopDeps)
    /\ TopDeps[Top.pos] = Top.key

\* C14 as stated: while the factory that resolves its own key
\* unconditionally is running, every step nests deeper, so the outer
\* invoke never ends.  Fails at the recursion limit: the next nested call
\* raises RecursionError, which ends the outer invoke.
C14_NeverEndsAsStated ==
    [][SelfRunning => Len(stack') > Len(stack)]_vars

\* C14: when a running factory resolves its own key, the key is not
\* cached and the nested invoke starts the same factory again for the
\* same key, or, at the recursion limit, RecursionError ends the outer
\* invoke and nothing is stored; a factory that does so unconditionally
\* never gets past that call, never returns, and no instance made by it
\* is ever cached for its key.
C14_SelfReference ==
    [][/\ AtSelfInvoke =>
           /\ ~Cached(Top.key)
           /\ IF Len(stack) < MaxDepth
              THEN /\ Started
                   /\ Len(stack') = Len(stack) + 1
                   /\ NewFrame.key = Top.key
                   /\ NewFrame.fac = Top.fac
                   /\ NewFrame.pos = 1
                   /\ ncalls' = [ncalls EXCEPT ![Top.key] = @ + 1]
                   /\ instances' = instances
              ELSE /\ Raised("RecursionError")
                   /\ stack' = << >>
                   /\ instances' = instances
       /\ \A i \in 1..Len(stack') :
             stack'[i].fac = "fDep" /\ stack'[i].key = SelfKey =>
                 stack'[i].pos = 1
       /\ SelfRunning => ~Returned /\ SelfKey \notin DOMAIN instances'
       /\ SelfKey \in DOMAIN instances' =>
             instances'[SelfKey].by # "fDep"
      ]_vars

\* The invoke of the self-referential key nested up to the recursion limit
\* and ended with RecursionError; the key is not cached.
C14_Witness ==
    /\ result.op = "invoke"
    /\ result.status = "RecursionError"
    /\ result.key = SelfKey
    /\ result.at = SelfKey
    /\ factories[SelfKey] = "fDep"
    /\ ncalls[SelfKey] = MaxDepth
    /\ SelfKey \notin DOMAIN instances

\* The threads that found nothing cached for target and have called the
\* factory for it.
Invokers(target) ==
    {t \in Threads :
        tmissed[t][target] /\ ~(ttarget[t] = target /\ tpc[t] = "call")}

\* C15: a thread at the check of invoke or value() is never held back,
\* whatever statement the other thread is at, and a thread that found
\* nothing cached always goes on to call the factory; the factory has been
\* invoked once for every thread that passed the check before a store, so
\* twice when both did.
C15_Unsynchronized ==
    /\ \A t \in Threads :
        /\ tpc[t] = "check" => ENABLED ThreadCheck(t)
        /\ tpc[t] = "call" => ENABLED ThreadCall(t)
    /\ ncalls[ThreadKey] = Cardinality(Invokers("container"))
    /\ vcalls[ThreadCell] = Cardinality(Invokers("cell"))

\* Both threads passed the check of invoke before either stored, and both
\* passed the check of value() likewise: each factory was invoked twice and
\* the two threads received different instances from invoke and different
\* values from value().
C15_Witness ==
    /\ \A t \in Threads : tpc[t] = "idle"
    /\ \A t \in Threads, target \in Targets :
          tmissed[t][target] /\ tret[t][target] # NoResult
    /\ tret["t1"]["container"] # tret["t2"]["container"]
    /\ tret["t1"]["cell"] # tret["t2"]["cell"]
    /\ ncalls[ThreadKey] = 2
    /\ vcalls[ThreadCell] = 2

\* The outermost value() ends with the exception of a factory in this step.
VRaised ==
    /\ vresult'.op = "value"
    /\ vresult'.status = "raised"
    /\ vstack # << >>

\* C16 as stated: when a factory called by value() raises, the outermost
\* value() ends with that error, the cell of the factory that raised and
\* the cell of the outermost call keep flag False and value None, and the
\* next value() of the cell invokes its factory again; after a value()
\* returned, the factory of the cell is never invoked again.  Fails for a
\* factory that re-enters value() of its own cell and then raises: the
\* nested value() has set the flag and the value.
C16_CellFailure ==
    [][/\ VRaised =>
            /\ vstack' = << >>
            /\ vresult'.at = VTop.cell
            /\ UNCHANGED <<cell_value, cell_invoked>>
            /\ ~cell_invoked'[vresult'.at]
            /\ cell_value'[vresult'.at] = None
            /\ ~cell_invoked'[vresult'.cell]
       /\ (vresult.op = "value" /\ vresult.status = "raised" /\ VAppCall
              /\ vresult'.op = "value" /\ vresult'.cell = vresult.cell) =>
            /\ vstack' = <<VFrame(vresult.cell)>>
            /\ vcalls'[vresult.cell] = vcalls[vresult.cell] + 1
       /\ \A cell \in DOMAIN vfirst : vcalls'[cell] = vcalls[cell]
      ]_vars

\* The cell and the container have completed the same number of value()
\* and invoke calls, after Value(f) and provide(T, wrap(f)).
InStep ==
    /\ Idle
    /\ vstack = << >>
    /\ RefKey \in DOMAIN factories
    /\ RefCell \in DOMAIN cell_factory
    /\ vops = nops

\* C17: whenever the cell built from f and the container whose key was
\* provided with wrap(f) have completed equally many calls under the same
\* outcomes of f, f was invoked equally often by both, the flag of the cell
\* is set exactly when the key is cached, and the last value() and the
\* last invoke ended alike: both raised, or both returned the object of
\* the same call of f, both from the cache or both from the factory.
C17_CellRefinesKey ==
    InStep =>
        /\ vcalls[RefCell] = pcalls["pTape"]
        /\ vcalls[RefCell] = ncalls[RefKey]
        /\ cell_invoked[RefCell] <=> RefKey \in DOMAIN instances
        /\ cell_invoked[RefCell] => cell_value[RefCell] = instances[RefKey]
        /\ nops > 1 =>
              /\ vresult.op = "value" /\ result.op = "invoke"
              /\ vresult.status = result.status
              /\ vresult.hit = result.hit
              /\ vresult.value = result.value

\* Both were called three times under a tape that starts with raise,
\* return: f raised, f returned, and the third calls were served from the
\* flag and from the cache with the same object.
C17_Witness ==
    /\ InStep
    /\ nops = 4
    /\ tape[1] = "raise"
    /\ tape[2] = "return"
    /\ vresult.status = "ok"
    /\ vresult.hit
    /\ result.hit
    /\ result.value = vresult.value
    /\ vcalls[RefCell] = 2

\* Steps on the second Container, on the first one, and on the Values.
OtherCall == other_ops' = other_ops + 1
FirstStep == AppCall \/ stack # << >>
ValueStepTaken == VAppCall \/ vstack # << >>
\* The key both Containers use.
BothKey == <<"T", DefaultName>>

\* C18: a provide or invoke on one Container leaves the factories, the
\* instances and the invocation counts of the other Container as they
\* were, and an invoke that runs a factory counts one invocation in its
\* own Container and caches an object the other Container does not hold;
\* the flag and the value of a cell change only when the factory called
\* by its own value() returns; calls on Values change no Container and
\* calls on Containers change no Value.
C18_Isolation ==
    [][/\ OtherCall =>
            /\ UNCHANGED <<factories, instances, ncalls>>
            /\ UNCHANGED <<cell_factory, cell_value, cell_invoked>>
            /\ (other_result'.op = "invoke" /\ other_result'.status = "ok"
                   /\ ~other_result'.hit) =>
                  /\ other_ncalls'[other_result'.key] =
                        other_ncalls[other_result'.key] + 1
                  /\ \A key \in DOMAIN instances :
                        instances[key] # other_result'.value
       /\ FirstStep =>
            /\ UNCHANGED <<other_factories, other_instances, other_ncalls>>
            /\ UNCHANGED <<cell_factory, cell_value, cell_invoked>>
            /\ (Returned /\ ~result'.hit) =>
                  \A key \in DOMAIN other_instances :
                      other_instances[key] # result'.value
       /\ ValueStepTaken =>
            /\ UNCHANGED <<factories, instances, ncalls>>
            /\ UNCHANGED <<other_factories, other_instances, other_ncalls>>
            /\ \A cell \in DOMAIN cell_invoked :
                  (cell_invoked'[cell] # cell_invoked[cell]
                      \/ cell_value'[cell] # cell_value[cell]) =>
                      vstack # << >> /\ VTop.cell = cell
      ]_vars

\* The same key was provided and resolved in both Containers: each holds
\* its own instance, made by one invocation of its own factory; and of two
\* constructed cells one was resolved by value() while the other is still
\* unresolved.
C18_Witness ==
    /\ BothKey \in DOMAIN instances
    /\ BothKey \in DOMAIN other_instances
    /\ instances[BothKey] # other_instances[BothKey]
    /\ ncalls[BothKey] = 1
    /\ other_ncalls[BothKey] = 1
    /\ DOMAIN cell_invoked = Cells
    /\ cell_invoked["c1"]
    /\ ~cell_invoked["c2"]
    /\ cell_value["c2"] = None

\* C19: when a factory returns None, invoke stores None under the key and
\* value() sets the flag; every later invoke of a key cached with None and
\* every later value() of a cell flagged with value None returns None at
\* once, with no factory started and no invocation counted; a cell whose
\* value is None and whose flag is not set does invoke its factory.
C19_NoneMemoized ==
    [][/\ (Returned /\ ~result'.hit /\ result'.value = None) =>
            /\ result'.key \in DOMAIN instances'
            /\ instances'[result'.key] = None
       /\ (InvokeCall /\ result'.key \in DOMAIN instances) =>
            /\ result'.status = "ok"
            /\ result'.hit
            /\ result'.value = instances[result'.key]
            /\ stack' = << >>
            /\ UNCHANGED <<ncalls, instances>>
       /\ (VReturned /\ ~vresult'.hit /\ vresult'.value = None) =>
            /\ cell_invoked'[vresult'.cell]
            /\ cell_value'[vresult'.cell] = None
       /\ (VAppCall /\ vresult'.op = "value") =>
            IF cell_invoked[vresult'.cell]
            THEN /\ vresult'.status = "ok"
                 /\ vresult'.hit
                 /\ vresult'.value = cell_value[vresult'.cell]
                 /\ vstack' = << >>
                 /\ UNCHANGED <<vcalls, cell_value, cell_invoked>>
            ELSE /\ vresult'.status = "running"
                 /\ vcalls'[vresult'.cell] = vcalls[vresult'.cell] + 1
      ]_vars

\* A key whose factory returned None was resolved again and a cell whose
\* factory returned None was read again: both calls returned None from the
\* cache, each factory having been invoked once.
C19_Witness ==
    /\ result.op = "invoke"
    /\ result.status = "ok"
    /\ result.hit
    /\ result.value = None
    /\ ncalls[result.key] = 1
    /\ vresult.op = "value"
    /\ vresult.status = "ok"
    /\ vresult.hit
    /\ vresult.value = None
    /\ vcalls[vresult.cell] = 1

\* The keys reachable from the keys in at most n steps of DepsOf.
RECURSIVE ReachIn(_, _)
ReachIn(keys, n) ==
    IF n = 0 THEN keys
    ELSE ReachIn(keys \cup UNION {DepsOf(key) : key \in keys}, n - 1)
\* The keys reachable from key in the dependency relation, key included.
Reach(key) == ReachIn({key}, Cardinality(Keys))

\* The invoke of key has returned an object, every key reachable from key
\* is cached and the factory of each has been invoked exactly once.
ResolvedOnce(key) ==
    /\ Idle
    /\ result.op = "invoke"
    /\ result.key = key
    /\ result.status = "ok"
    /\ \A dep \in Reach(key) :
          dep \in DOMAIN instances /\ ncalls[dep] = 1

\* C20: with registered, acyclic, always returning factories every invoke
\* that has started a factory is followed by the state in which it has
\* returned an object, every key reachable from its key is cached and the
\* factory of each of them has been invoked exactly once.
C20_Terminates ==
    \A key \in Keys :
        (result.op = "invoke" /\ result.key = key
            /\ result.status = "running") ~> ResolvedOnce(key)

\* The invoke of the top of the diamond returned after running all four
\* factories, each once.
C20_Witness ==
    /\ ResolvedOnce(<<"U", "a">>)
    /\ ~result.hit
    /\ Reach(result.key) = Keys
    /\ DOMAIN instances = Keys
    /\ \A key \in Keys : ncalls[key] = 1
====
